---- MODULE Spec2Model ----
(***************************************************************************)
(* Order session machine of the food-ordering webhook                      *)
(* (src/webhook/main.py, src/webhook/db_helper.py) and its notification    *)
(* system (src/webhook/notification_system.py).                            *)
(*                                                                         *)
(* Strings are sequences of one-character strings, so that sanitising a    *)
(* food-item name and parsing a quantity are computed, not assumed.        *)
(* A Mongo collection keyed by session_id is a function whose DOMAIN is    *)
(* the set of sessions that own a document; a cart (Python dict) is a      *)
(* function whose DOMAIN is its key set.  Dict equality in Python ignores  *)
(* insertion order, and so does equality of these functions.               *)
(*                                                                         *)
(* Every intent handler is one atomic action.  The response variable holds *)
(* the JSONResponse of the last request; fulfillmentText is kept as a tag  *)
(* naming the message, with the values it embeds as fields of their own.   *)
(* The dispatched variable holds the channels on which the last request    *)
(* asked the notification system for an order confirmation.                *)
(* The order_details variable holds the order id of that confirmation, as  *)
(* the message templates render it.                                        *)
(*                                                                         *)
(* The environment of the handlers is the clock, the catalog and the set   *)
(* failing of db_helper functions whose pymongo call raises at present.    *)
(* In Spec the data store answers every call, the catalog is fixed and     *)
(* the clock stands still; SpecEnv lets the clock and the prices move,     *)
(* SpecFault lets the store fail, SpecNoCommit is Spec without Commit.     *)
(*                                                                         *)
(* The notification system (src/webhook/notification_system.py) is also    *)
(* modelled on its own, provider by provider: SpecNotify starts it with    *)
(* any set of credentials and lets it serve one call at a time, with every *)
(* outcome of every provider; the handler specifications keep it idle and  *)
(* see a dispatch only through dispatched and the channels that succeeded. *)
(***************************************************************************)
EXTENDS Integers, Sequences, FiniteSets, TLC

VARIABLES inprogress_orders, user_contacts, food_items, clock, failing,
          response, dispatched, order_details,
          credentials, call, attempts, results,
          inflight

vars == <<inprogress_orders, user_contacts, food_items, clock, failing,
          response, dispatched, order_details, credentials, call, attempts, results, inflight>>

\* the NotificationSystem object looked at on its own (SpecNotify): the
\* credentials its constructor read, the call it is serving, the sends that
\* call has made so far and the value it returns
notifier == <<credentials, call, attempts, results>>

\* what no handler writes: the catalog, the clock, the state of the store;
\* the handlers' own use of the notification system is seen through dispatched,
\* and inflight holds the requests that server processes have read the cart
\* for and not yet answered (SpecRace; a handler taken as one step has none)
env == <<food_items, clock, failing, notifier, inflight>>

(***************************************************************************)
(* Bounds of the model.                                                    *)
(***************************************************************************)
\* largest quantity a stored cart entry may reach (AddItems is not taken beyond it)
MaxQty == 3
\* longest food-item list of a well-formed request
MaxItems == 2

\* the clock is not taken beyond this many seconds
MaxTime == 3

\* the session ids that send requests
Sessions == {"s1"}

\* raw food-item names a request may carry
RawNames == { <<"A", "!">>, <<"b">>, <<"z">> }
\* quantity texts of well-formed requests ("2" is what int() sees for 2 and for "2")
PosTokens == { <<"1">>, <<"2">> }

\* the food_items collection before any edit
Menu == { [name |-> <<"A">>, price |-> 2], [name |-> <<"b">>, price |-> 3] }

\* the prices the menu editor may give an item
Prices == {2, 3}

Phones == { <<"0", "3">> }
Emails == { <<"a", "@", "b">> }

(***************************************************************************)
(* Characters                                                              *)
(***************************************************************************)
LowerLetters == {"a", "b", "z"}
UpperLetters == {"A", "B", "Z"}
Digits == {"0", "1", "2", "3", "4", "5", "6", "7", "8", "9"}

ToLower(c) ==
    CASE c = "A" -> "a"
      [] c = "B" -> "b"
      [] c = "Z" -> "z"
      [] OTHER -> c

DigitValue(c) ==
    CASE c = "0" -> 0 [] c = "1" -> 1 [] c = "2" -> 2 [] c = "3" -> 3
      [] c = "4" -> 4 [] c = "5" -> 5 [] c = "6" -> 6 [] c = "7" -> 7
      [] c = "8" -> 8 [] c = "9" -> 9

Min(a, b) == IF a <= b THEN a ELSE b

\* str.lower()
Lower(s) == [i \in 1..Len(s) |-> ToLower(s[i])]

\* re.sub(r"[^a-zA-Z0-9\- ]", "", item): the characters the class keeps
KeptChar(c) == c \in LowerLetters \cup UpperLetters \cup Digits \cup {"-", " "}

KeepOnly(s) == SelectSeq(s, KeptChar)

RECURSIVE LStrip(_)
LStrip(s) == IF s # <<>> /\ Head(s) = " " THEN LStrip(Tail(s)) ELSE s

RECURSIVE RStrip(_)
RStrip(s) ==
    IF s # <<>> /\ s[Len(s)] = " " THEN RStrip(SubSeq(s, 1, Len(s) - 1)) ELSE s

\* str.strip()
Strip(s) == RStrip(LStrip(s))

\* the [:30] slice
MaxNameLen == 30

\* re.sub(...).strip().lower()[:30]
sanitize_food_item(item) ==
    LET t == Lower(Strip(KeepOnly(item)))
    IN  SubSeq(t, 1, Min(Len(t), MaxNameLen))

(***************************************************************************)
(* int(q) on the text of a quantity                                        *)
(***************************************************************************)
AllDigits(s) == s # <<>> /\ \A i \in 1..Len(s) : s[i] \in Digits

\* int(q) does not raise
IsIntText(q) ==
    \/ AllDigits(q)
    \/ q # <<>> /\ Head(q) \in {"-", "+"} /\ AllDigits(Tail(q))

RECURSIVE DigitsValue(_)
DigitsValue(s) ==
    IF s = <<>> THEN 0
    ELSE 10 * DigitsValue(SubSeq(s, 1, Len(s) - 1)) + DigitValue(s[Len(s)])

\* int(q), for a q on which it does not raise
IntOf(q) ==
    IF Head(q) = "-" THEN 0 - DigitsValue(Tail(q))
    ELSE IF Head(q) = "+" THEN DigitsValue(Tail(q))
    ELSE DigitsValue(q)

(***************************************************************************)
(* db_helper: the collections                                              *)
(***************************************************************************)
EmptyOrder == <<>>

\* the catalog lookup is a case-insensitive match of the whole name
NameMatches(f, item_name) == Lower(f.name) = Lower(item_name)

\* Each db_helper function catches the exception of its pymongo call and
\* answers with a default: Raises(f) says the call of f raises at present.
Raises(f) == f \in failing

\* a variant that finds every name it is asked for
food_item_exists_any(item_name) == ~Raises("food_item_exists")

food_item_exists(item_name) ==
    IF Raises("food_item_exists") THEN FALSE
    ELSE \E f \in food_items : NameMatches(f, item_name)

\* a variant that answers with the price the item had before any edit
get_item_price_listed(item_name) ==
    IF \E f \in Menu : NameMatches(f, item_name)
    THEN (CHOOSE f \in Menu : NameMatches(f, item_name)).price
    ELSE 0

get_item_price(item_name) ==
    IF Raises("get_item_price") THEN 0
    ELSE IF \E f \in food_items : NameMatches(f, item_name)
    THEN (CHOOSE f \in food_items : NameMatches(f, item_name)).price
    ELSE 0

get_inprogress_order(session_id) ==
    IF Raises("get_inprogress_order") THEN EmptyOrder
    ELSE IF session_id \in DOMAIN inprogress_orders
    THEN inprogress_orders[session_id]
    ELSE EmptyOrder

\* update_one(..., {"$set": {"order": order}}, upsert=True): the collection afterwards
set_inprogress_order(session_id, order) ==
    IF Raises("set_inprogress_order") THEN inprogress_orders
    ELSE [t \in DOMAIN inprogress_orders \cup {session_id} |->
             IF t = session_id THEN order ELSE inprogress_orders[t]]

\* a delete whose filter matches the documents of every session
delete_every_order(session_id) == [t \in {} |-> EmptyOrder]

\* a variant of the delete that leaves an empty cart document behind
delete_leaving_document(session_id) ==
    [t \in DOMAIN inprogress_orders |->
        IF t = session_id THEN EmptyOrder ELSE inprogress_orders[t]]

\* delete_one({"session_id": session_id}): the collection afterwards
delete_inprogress_order(session_id) ==
    IF Raises("delete_inprogress_order") THEN inprogress_orders
    ELSE [t \in DOMAIN inprogress_orders \ {session_id} |-> inprogress_orders[t]]

get_order(session_id) == get_inprogress_order(session_id)

set_order(session_id, order) == set_inprogress_order(session_id, order)

delete_order(session_id) == delete_inprogress_order(session_id)

(***************************************************************************)
(* Requests and responses                                                  *)
(***************************************************************************)
\* A parameter is "absent" (missing or null), a "scalar" (truthy but not a
\* list) or a "list".  A list element of
\* food-item is a string or some other JSON value.
Str(chars) == [str |-> TRUE, chars |-> chars]
NotStr == [str |-> FALSE, chars |-> <<>>]

Params(fk, food, nk, number) ==
    [food_kind |-> fk, food |-> food, number_kind |-> nk, number |-> number]

\* the fields a JSONResponse of the intent handlers can carry
NoResponse ==
    [text |-> "", status_code |-> "", item |-> <<>>, order_summary |-> EmptyOrder,
     removed_items |-> <<>>, no_such_items |-> <<>>, remaining_items |-> EmptyOrder,
     order_id |-> 0, total_price |-> 0, total_items |-> 0, ask_for |-> "",
     channels |-> {}]

ErrorResponse(text) == [NoResponse EXCEPT !.text = text, !.status_code = "error"]

\* the digits of str()
DecimalDigits == <<"0", "1", "2", "3", "4", "5", "6", "7", "8", "9">>

\* str(n) of an int that is not negative: what f"#{order_id}" renders
RECURSIVE IntText(_)
IntText(n) ==
    IF n < 10 THEN <<DecimalDigits[n + 1]>>
    ELSE IntText(n \div 10) \o <<DecimalDigits[(n % 10) + 1]>>

\* no order_details dict: the request asked for no notification
NoDetails == [order_id |-> <<>>]

(***************************************************************************)
(* validate_order_params                                                   *)
(***************************************************************************)
Truthy(kind, list) == kind = "scalar" \/ (kind = "list" /\ list # <<>>)

\* [sanitize_food_item(item) for item in parameters["food-item"]]
SanitizedItems(parameters) ==
    [i \in 1..Len(parameters.food) |-> sanitize_food_item(parameters.food[i].chars)]

\* [int(q) for q in ...]
IntList(number) == [i \in 1..Len(number) |-> IntOf(number[i])]

\* a variant of the positivity test that lets zero through
AllNonNegative(quantities) == \A i \in 1..Len(quantities) : quantities[i] >= 0

\* all(q > 0 for q in quantities)
AllPositive(quantities) == \A i \in 1..Len(quantities) : quantities[i] > 0

validate_order_params(parameters) ==
    LET food_items_p == parameters.food
        quantities == parameters.number
    IN  IF \/ ~Truthy(parameters.food_kind, food_items_p)
           \/ parameters.food_kind # "list"
           \/ \E i \in 1..Len(food_items_p) : ~food_items_p[i].str
        THEN [is_valid |-> FALSE, msg |-> "Please specify valid food items."]
        ELSE IF Truthy(parameters.number_kind, quantities)
        THEN IF \/ parameters.number_kind # "list"
                \/ Len(quantities) # Len(food_items_p)
             THEN [is_valid |-> FALSE, msg |-> "Please specify quantity for each food item."]
             ELSE IF \E i \in 1..Len(quantities) : ~IsIntText(quantities[i])
             THEN [is_valid |-> FALSE, msg |-> "Quantities must be numbers."]
             ELSE IF ~AllPositive(IntList(quantities))
             THEN [is_valid |-> FALSE, msg |-> "Quantities must be positive numbers."]
             ELSE [is_valid |-> TRUE, msg |-> ""]
        ELSE [is_valid |-> TRUE, msg |-> ""]

(***************************************************************************)
(* add_to_order                                                            *)
(***************************************************************************)
\* zip() stops at the shorter list
ZipLen(keys, values) == Min(Len(keys), Len(values))

LastIndex(keys, n, k) ==
    CHOOSE i \in 1..n : keys[i] = k /\ \A j \in 1..n : keys[j] = k => j <= i

FirstIndex(keys, n, k) ==
    CHOOSE i \in 1..n : keys[i] = k /\ \A j \in 1..n : keys[j] = k => i <= j

\* dict(zip(keys, values)): a repeated key keeps its last value
DictZip(keys, values) ==
    LET n == ZipLen(keys, values)
    IN  [k \in {keys[i] : i \in 1..n} |-> values[LastIndex(keys, n, k)]]

\* the keys of dict(zip(keys, values)) in iteration order: first occurrences
RECURSIVE DictKeyOrder(_, _, _)
DictKeyOrder(keys, n, i) ==
    IF i > n THEN <<>>
    ELSE IF FirstIndex(keys, n, keys[i]) = i
         THEN <<keys[i]>> \o DictKeyOrder(keys, n, i + 1)
         ELSE DictKeyOrder(keys, n, i + 1)

\* current_order[item] = current_order.get(item, 0) + qty
DictAdd(order, item, qty) ==
    [k \in DOMAIN order \cup {item} |->
        IF k = item
        THEN (IF item \in DOMAIN order THEN order[item] ELSE 0) + qty
        ELSE order[k]]

\* the for loop of add_to_order over new_food_dict.items(), from position i:
\* it returns at the first item the catalog does not have
RECURSIVE AddLoop(_, _, _, _)
AddLoop(order_keys, new_food_dict, current_order, i) ==
    IF i > Len(order_keys)
    THEN [found |-> TRUE, item |-> <<>>, order |-> current_order]
    ELSE IF ~food_item_exists(order_keys[i])
         THEN [found |-> FALSE, item |-> order_keys[i], order |-> current_order]
         ELSE AddLoop(order_keys, new_food_dict,
                      DictAdd(current_order, order_keys[i], new_food_dict[order_keys[i]]),
                      i + 1)

\* what add_to_order returns, and the inprogress_orders collection it leaves
AddResult(parameters, session_id) ==
    LET v == validate_order_params(parameters)
        food == SanitizedItems(parameters)
        quantities == IntList(parameters.number)
        new_food_dict == DictZip(food, quantities)
        loop == AddLoop(DictKeyOrder(food, ZipLen(food, quantities), 1),
                        new_food_dict, get_order(session_id), 1)
    IN  IF ~v.is_valid
        THEN [stored |-> inprogress_orders, response |-> ErrorResponse(v.msg)]
        ELSE IF parameters.number_kind # "list"
        THEN \* parameters["number"] raises, the except branch answers
             [stored |-> inprogress_orders,
              response |-> ErrorResponse("Sorry, an error occurred while adding to your order.")]
        ELSE IF ~loop.found
        THEN [stored |-> inprogress_orders,
              response |-> [ErrorResponse("Sorry, item is not available in our menu.")
                                EXCEPT !.item = loop.item]]
        ELSE [stored |-> set_order(session_id, loop.order),
              response |-> [NoResponse EXCEPT !.text = "So far you have",
                                              !.order_summary = loop.order,
                                              !.status_code = "success"]]

\* quantities stay within the model's bound
WithinBound(collection) ==
    \A t \in DOMAIN collection : \A k \in DOMAIN collection[t] : collection[t][k] <= MaxQty

add_to_order(parameters, session_id) ==
    \E r \in {AddResult(parameters, session_id)} :
        /\ WithinBound(r.stored)
        /\ inprogress_orders' = r.stored
        /\ response' = r.response
        /\ dispatched' = {}
        /\ order_details' = NoDetails
        /\ UNCHANGED <<user_contacts, env>>

(***************************************************************************)
(* remove_from_order                                                       *)
(***************************************************************************)
\* del current_order[item], for an item the dict has
DictDel(order, item) == [k \in DOMAIN order \ {item} |-> order[k]]

\* parameters.get("number") or [1] * len(food_items), then int() of each
RemoveQuantities(parameters) ==
    IF Truthy(parameters.number_kind, parameters.number)
    THEN IntList(parameters.number)
    ELSE [i \in 1..Len(parameters.food) |-> 1]

\* a variant that reports the requested quantity whatever the cart holds
RemovedQtyRequested(current, qty) == qty

\* the quantity the loop reports for an item the cart has
RemovedQty(current, qty) == IF current > qty THEN qty ELSE current

\* the for loop of remove_from_order over zip(food_items, quantities), from
\* position i.  The del statement follows the if/else for every item, so it
\* raises KeyError for an item the cart does not have.
RECURSIVE RemoveLoop(_, _, _, _, _, _)
RemoveLoop(food, quantities, current_order, removed_items, no_such_items, i) ==
    IF i > ZipLen(food, quantities)
    THEN [raised |-> FALSE, order |-> current_order,
          removed_items |-> removed_items, no_such_items |-> no_such_items]
    ELSE IF food[i] \notin DOMAIN current_order
         THEN [raised |-> TRUE, order |-> current_order,
               removed_items |-> removed_items,
               no_such_items |-> Append(no_such_items, food[i])]
         ELSE RemoveLoop(food, quantities, DictDel(current_order, food[i]),
                         Append(removed_items,
                                <<RemovedQty(current_order[food[i]], quantities[i]), food[i]>>),
                         no_such_items, i + 1)

\* a variant whose except branch saves the copy the loop had already changed
RemoveResultSavingCopy(parameters, session_id) ==
    LET v == validate_order_params(parameters)
        loop == RemoveLoop(SanitizedItems(parameters), RemoveQuantities(parameters),
                           get_order(session_id), <<>>, <<>>, 1)
    IN  IF ~v.is_valid
        THEN [stored |-> inprogress_orders, response |-> ErrorResponse(v.msg)]
        ELSE IF loop.raised
        THEN [stored |-> set_order(session_id, loop.order),
              response |-> ErrorResponse(
                  "Sorry, an error occurred while removing from your order.")]
        ELSE IF loop.order = EmptyOrder
        THEN [stored |-> delete_order(session_id),
              response |-> [NoResponse EXCEPT !.text = "Removed. Your order is empty!",
                                              !.removed_items = loop.removed_items,
                                              !.no_such_items = loop.no_such_items,
                                              !.remaining_items = EmptyOrder,
                                              !.status_code = "success"]]
        ELSE [stored |-> set_order(session_id, loop.order),
              response |-> [NoResponse EXCEPT !.text = "Removed. Here is what is left",
                                              !.removed_items = loop.removed_items,
                                              !.no_such_items = loop.no_such_items,
                                              !.remaining_items = loop.order,
                                              !.status_code = "success"]]

\* what remove_from_order returns, and the inprogress_orders collection it leaves
RemoveResult(parameters, session_id) ==
    LET v == validate_order_params(parameters)
        loop == RemoveLoop(SanitizedItems(parameters), RemoveQuantities(parameters),
                           get_order(session_id), <<>>, <<>>, 1)
    IN  IF ~v.is_valid
        THEN [stored |-> inprogress_orders, response |-> ErrorResponse(v.msg)]
        ELSE IF loop.raised
        THEN \* del current_order[item] raises, the except branch answers
             [stored |-> inprogress_orders,
              response |-> ErrorResponse(
                  "Sorry, an error occurred while removing from your order.")]
        ELSE IF loop.order = EmptyOrder
        THEN [stored |-> delete_order(session_id),
              response |-> [NoResponse EXCEPT !.text = "Removed. Your order is empty!",
                                              !.removed_items = loop.removed_items,
                                              !.no_such_items = loop.no_such_items,
                                              !.remaining_items = EmptyOrder,
                                              !.status_code = "success"]]
        ELSE [stored |-> set_order(session_id, loop.order),
              response |-> [NoResponse EXCEPT !.text = "Removed. Here is what is left",
                                              !.removed_items = loop.removed_items,
                                              !.no_such_items = loop.no_such_items,
                                              !.remaining_items = loop.order,
                                              !.status_code = "success"]]

remove_from_order(parameters, session_id) ==
    \E r \in {RemoveResult(parameters, session_id)} :
        /\ inprogress_orders' = r.stored
        /\ response' = r.response
        /\ dispatched' = {}
        /\ order_details' = NoDetails
        /\ UNCHANGED <<user_contacts, env>>

(***************************************************************************)
(* db_helper: contacts                                                     *)
(***************************************************************************)
\* None and every other falsy value read as the empty string
NoValue == <<>>

ContactField(session_id, field) ==
    IF session_id \in DOMAIN user_contacts /\ field \in DOMAIN user_contacts[session_id]
    THEN user_contacts[session_id][field]
    ELSE NoValue

get_user_phone(session_id) ==
    IF Raises("get_user_phone") THEN NoValue ELSE ContactField(session_id, "phone")

get_user_email(session_id) ==
    IF Raises("get_user_email") THEN NoValue ELSE ContactField(session_id, "email")

\* an update that replaces the whole contact document by the one field
SetContactReplacing(session_id, field, value) ==
    [t \in DOMAIN user_contacts \cup {session_id} |->
        IF t = session_id THEN [f \in {field} |-> value] ELSE user_contacts[t]]

\* update_one(..., {"$set": {field: value}}, upsert=True): the collection afterwards
SetContactField(session_id, field, value) ==
    LET old == IF session_id \in DOMAIN user_contacts
               THEN user_contacts[session_id] ELSE <<>>
        doc == [f \in DOMAIN old \cup {field} |-> IF f = field THEN value ELSE old[f]]
    IN  [t \in DOMAIN user_contacts \cup {session_id} |->
            IF t = session_id THEN doc ELSE user_contacts[t]]

set_user_phone(session_id, phone_number) ==
    IF Raises("set_user_phone") THEN user_contacts
    ELSE SetContactField(session_id, "phone", phone_number)

set_user_email(session_id, email) ==
    IF Raises("set_user_email") THEN user_contacts
    ELSE SetContactField(session_id, "email", email)

(***************************************************************************)
(* order_summary_intent, complete_order, send_notifications                *)
(***************************************************************************)
\* sum(order.values()), over the keys given
RECURSIVE SumQuantities(_, _)
SumQuantities(order, keys) ==
    IF keys = {} THEN 0
    ELSE LET k == CHOOSE x \in keys : TRUE
         IN  order[k] + SumQuantities(order, keys \ {k})

\* sum(quantity * db_helper.get_item_price(item) ...), over the keys given
RECURSIVE SumAmounts(_, _)
SumAmounts(order, keys) ==
    IF keys = {} THEN 0
    ELSE LET k == CHOOSE x \in keys : TRUE
         IN  order[k] * get_item_price(k) + SumAmounts(order, keys \ {k})

\* a variant that counts the entries of the order, not their quantities
TotalEntries(order) == Cardinality(DOMAIN order)

TotalItems(order) == SumQuantities(order, DOMAIN order)

TotalAmount(order) == SumAmounts(order, DOMAIN order)

\* a variant of order_summary_intent that answers with the error whatever is
\* stored and drops the session's cart record
order_summary_clearing(session_id) ==
    /\ response' = ErrorResponse("You don't have any items in your order yet.")
    /\ inprogress_orders' = delete_order(session_id)
    /\ dispatched' = {}
    /\ order_details' = NoDetails
    /\ UNCHANGED <<user_contacts, env>>

order_summary_intent(session_id) ==
    LET order == get_order(session_id)
    IN  /\ response' =
              IF order = EmptyOrder
              THEN ErrorResponse("You don't have any items in your order yet.")
              ELSE [NoResponse EXCEPT !.text = "Your order summary",
                                      !.total_items = TotalItems(order),
                                      !.total_price = TotalAmount(order),
                                      !.status_code = "success"]
        /\ dispatched' = {}
        /\ order_details' = NoDetails
        /\ UNCHANGED <<inprogress_orders, user_contacts, env>>

\* the channels send_order_confirmation attempts: the keys of its results
send_order_confirmation(phone_number, email) ==
    (IF phone_number # NoValue THEN {"sms", "whatsapp"} ELSE {})
    \cup (IF email # NoValue THEN {"email"} ELSE {})

\* the channels of send_order_confirmation's results whose success is true:
\* SMS and email succeed or fail with their provider, the WhatsApp chain ends
\* in the local provider, which succeeds
SuccessChannels(phone_number, email, sms_ok, email_ok) ==
    (IF phone_number # NoValue /\ sms_ok THEN {"SMS"} ELSE {})
    \cup (IF phone_number # NoValue THEN {"WhatsApp"} ELSE {})
    \cup (IF email # NoValue /\ email_ok THEN {"Email"} ELSE {})

PlacedResponse(order) ==
    [NoResponse EXCEPT !.order_id = clock,
                       !.total_price = TotalAmount(order),
                       !.status_code = "success"]

\* what complete_order returns
CompleteResponse(session_id, sms_ok, email_ok) ==
    LET order == get_order(session_id)
        phone_number == get_user_phone(session_id)
        email == get_user_email(session_id)
        success_channels == SuccessChannels(phone_number, email, sms_ok, email_ok)
    IN  IF order = EmptyOrder
              THEN ErrorResponse("I'm having trouble finding your order.")
              ELSE IF phone_number = NoValue /\ email = NoValue
              THEN [PlacedResponse(order) EXCEPT !.text = "Order placed. Please provide your phone number",
                                                 !.ask_for = "phone"]
              ELSE IF phone_number = NoValue
              THEN [PlacedResponse(order) EXCEPT !.text = "Order placed. To receive SMS and WhatsApp updates",
                                                 !.ask_for = "phone"]
              ELSE IF email = NoValue
              THEN [PlacedResponse(order) EXCEPT !.text = "Order placed. To receive email notifications",
                                                 !.ask_for = "email"]
              ELSE IF success_channels # {}
              THEN [PlacedResponse(order) EXCEPT !.text = "Order placed. Order confirmation sent",
                                                 !.channels = success_channels]
              ELSE [PlacedResponse(order) EXCEPT !.text = "Order placed. Notification sending failed"]

\* a variant that notifies whenever a contact is stored, order or not
CompleteDispatchAnyCart(session_id) ==
    send_order_confirmation(get_user_phone(session_id), get_user_email(session_id))

\* the notifications complete_order asks for: none unless the order is placed
\* and both a phone number and an email are stored
CompleteDispatch(session_id) ==
    LET phone_number == get_user_phone(session_id)
        email == get_user_email(session_id)
    IN  IF get_order(session_id) # EmptyOrder /\ phone_number # NoValue /\ email # NoValue
        THEN send_order_confirmation(phone_number, email)
        ELSE {}

\* the order_details complete_order hands to send_order_confirmation: they
\* carry order_id = int(time.time()), the id of its reply
CompleteDetails(session_id) ==
    IF CompleteDispatch(session_id) # {} THEN [order_id |-> IntText(clock)] ELSE NoDetails

\* the order_details send_notifications builds: order_id = f"ORD{int(time.time())}"
NotificationDetails == [order_id |-> <<"O", "R", "D">> \o IntText(clock)]

\* a variant of complete_order that also deletes the cart it has placed
complete_order_deleting(session_id, sms_ok, email_ok) ==
    /\ response' = CompleteResponse(session_id, sms_ok, email_ok)
    /\ dispatched' = CompleteDispatch(session_id)
    /\ order_details' = CompleteDetails(session_id)
    /\ inprogress_orders' = delete_order(session_id)
    /\ UNCHANGED <<user_contacts, env>>

complete_order(session_id, sms_ok, email_ok) ==
    /\ response' = CompleteResponse(session_id, sms_ok, email_ok)
    /\ dispatched' = CompleteDispatch(session_id)
    /\ order_details' = CompleteDetails(session_id)
    /\ UNCHANGED <<inprogress_orders, user_contacts, env>>

send_notifications(session_id, sms_ok, email_ok) ==
    LET phone_number == get_user_phone(session_id)
        email == get_user_email(session_id)
        order == get_order(session_id)
        success_channels == SuccessChannels(phone_number, email, sms_ok, email_ok)
    IN  /\ response' =
              IF phone_number = NoValue /\ email = NoValue
              THEN ErrorResponse("I don't have your contact information yet.")
              ELSE IF order = EmptyOrder
              THEN ErrorResponse("You don't have any items in your order yet.")
              ELSE IF success_channels # {}
              THEN [NoResponse EXCEPT !.text = "Order confirmation sent successfully",
                                      !.channels = success_channels,
                                      !.status_code = "success"]
              ELSE [NoResponse EXCEPT !.text = "I tried to send notifications but there was an issue.",
                                      !.status_code = "warning"]
        /\ dispatched' =
              IF (phone_number = NoValue /\ email = NoValue) \/ order = EmptyOrder
              THEN {}
              ELSE send_order_confirmation(phone_number, email)
        /\ order_details' =
              IF (phone_number = NoValue /\ email = NoValue) \/ order = EmptyOrder
              THEN NoDetails
              ELSE NotificationDetails
        /\ UNCHANGED <<inprogress_orders, user_contacts, env>>

(***************************************************************************)
(* collect_phone_number, collect_email                                     *)
(***************************************************************************)
collect_phone_number(phone_number, session_id) ==
    IF phone_number = NoValue
    THEN /\ response' = ErrorResponse("Please provide your phone number")
         /\ dispatched' = {}
         /\ order_details' = NoDetails
         /\ UNCHANGED <<inprogress_orders, user_contacts, env>>
    ELSE /\ user_contacts' = set_user_phone(session_id, phone_number)
         /\ response' =
               IF get_user_email(session_id) # NoValue
               THEN [NoResponse EXCEPT !.text = "I've saved your phone number. Your contact information is complete!",
                                       !.status_code = "success"]
               ELSE [NoResponse EXCEPT !.text = "I've saved your phone number. Please provide your email address",
                                       !.status_code = "success"]
         /\ dispatched' = {}
         /\ order_details' = NoDetails
         /\ UNCHANGED <<inprogress_orders, env>>

collect_email(email, session_id) ==
    IF email = NoValue
    THEN /\ response' = ErrorResponse("Please provide your email address")
         /\ dispatched' = {}
         /\ order_details' = NoDetails
         /\ UNCHANGED <<inprogress_orders, user_contacts, env>>
    ELSE /\ user_contacts' = set_user_email(session_id, email)
         /\ response' = [NoResponse EXCEPT !.text = "I've saved your email. Your contact information is complete!",
                                           !.status_code = "success"]
         /\ dispatched' = {}
         /\ order_details' = NoDetails
         /\ UNCHANGED <<inprogress_orders, env>>

\* parameters['order_id'] values of a tracking request: a number, and a text
\* int() rejects
OrderIdTexts == { <<"1">>, <<"x">> }

\* track_order: the status is looked up in order_tracking, a collection no
\* handler writes; status_found tells whether the lookup returned a status.
\* None of its three replies has a status_code key.
track_order(order_id, status_found, session_id) ==
    /\ response' =
           IF ~IsIntText(order_id)
           THEN [NoResponse EXCEPT !.text = "Sorry, an error occurred while tracking your order."]
           ELSE IF status_found
           THEN [NoResponse EXCEPT !.text = "The order status for order id is"]
           ELSE [NoResponse EXCEPT !.text = "No order found with order id"]
    /\ dispatched' = {}
    /\ order_details' = NoDetails
    /\ UNCHANGED <<inprogress_orders, user_contacts, env>>

\* handle_request for an intent that is not in intent_handler_dict
unknown_intent(session_id) ==
    /\ response' = ErrorResponse("Sorry, I didn't understand your request.")
    /\ dispatched' = {}
    /\ order_details' = NoDetails
    /\ UNCHANGED <<inprogress_orders, user_contacts, env>>

(***************************************************************************)
(* The environment: the clock and the menu editor                          *)
(***************************************************************************)
\* a second passes
Tick ==
    /\ clock < MaxTime
    /\ clock' = clock + 1
    /\ UNCHANGED <<inprogress_orders, user_contacts, food_items, failing,
                   response, dispatched, order_details, notifier, inflight>>

\* PUT /api/menu/{item_id} with a price: update_one(..., {"$set": item}) on the
\* item's document; the endpoint answers with a message of its own
edit_menu_item(f, price) ==
    /\ f \in food_items
    /\ f.price # price
    /\ food_items' = (food_items \ {f}) \cup {[f EXCEPT !.price = price]}
    /\ response' = [NoResponse EXCEPT !.text = "Menu item updated."]
    /\ dispatched' = {}
    /\ order_details' = NoDetails
    /\ UNCHANGED <<inprogress_orders, user_contacts, clock, failing, notifier, inflight>>

\* the db_helper functions the handlers call
DbFunctions ==
    { "food_item_exists", "get_item_price",
      "get_inprogress_order", "set_inprogress_order", "delete_inprogress_order",
      "get_user_phone", "get_user_email", "set_user_phone", "set_user_email" }

\* the store is reliable, or the pymongo call of one function raises
FailureSets == {{}} \cup { {f} : f \in DbFunctions }

\* the store starts or stops raising in a function, between two requests
StoreChanges ==
    \E fs \in FailureSets :
        /\ fs # failing
        /\ failing' = fs
        /\ UNCHANGED <<inprogress_orders, user_contacts, food_items, clock,
                       response, dispatched, order_details, notifier, inflight>>

(***************************************************************************)
(* The notification system (notification_system.py)                        *)
(*                                                                         *)
(* A provider is modelled by what it does with one send: it accepts the    *)
(* message, it answers with an error, or the transport raises.  Every send *)
(* a call makes is written to attempts, in the order of the sends.         *)
(***************************************************************************)
\* the environment variables __init__ reads as credentials
CredentialNames ==
    { "MSG91_AUTH_KEY", "WHATSAPP_TOKEN", "WHATSAPP_PHONE_ID",
      "GREENAPI_INSTANCE_ID", "GREENAPI_TOKEN", "EMAIL_USER", "EMAIL_PASSWORD" }

\* self.<credential> is truthy
Configured(name) == name \in credentials

\* what one send may meet: status 200, another status, an exception of requests/smtplib
Outcomes == {"ok", "fail", "raise"}

\* the destinations of the model: a local number, a number written "+0...",
\* an international number
Numbers ==
    { <<"0", "3", "0", "0", "1", "2", "3", "4", "5", "6", "7">>,
      <<"+", "0", "9", "8", "7", "6", "5", "4", "3", "2", "1">>,
      <<"+", "9", "2", "3", "0", "0", "1", "2", "3", "4", "5", "6", "7">> }

\* the message argument of a send: a str, or None
Messages == {"text", "none"}

\* str.startswith
StartsWith(s, prefix) ==
    Len(s) >= Len(prefix) /\ SubSeq(s, 1, Len(prefix)) = prefix

\* to_number[2:]
From2(s) == SubSeq(s, 3, Len(s))

\* to_number.replace('+', '')
clean_number(to_number) == SelectSeq(to_number, LAMBDA c : c # "+")

\* "Format phone number" of send_sms
FormatSms(to_number) ==
    IF ~StartsWith(to_number, <<"+">>) THEN <<"+", "9", "2">> \o to_number
    ELSE IF StartsWith(to_number, <<"+", "0">>) THEN <<"+", "9", "2">> \o From2(to_number)
    ELSE to_number

\* "Format phone number" of send_whatsapp
FormatWhatsapp(to_number) ==
    IF StartsWith(to_number, <<"+", "0">>) THEN <<"+", "9", "2">> \o From2(to_number)
    ELSE to_number

\* the result dicts: an error is the pair of where it was raised and its text
NoError == <<>>
Success(method) == [success |-> TRUE, method |-> method, error |-> NoError]
Failure(where, text) == [success |-> FALSE, method |-> "", error |-> <<where, text>>]

\* one requests.post / SMTP session / log line made for a call
Attempt(provider, endpoint, to, outcome) ==
    [provider |-> provider, endpoint |-> endpoint, to |-> to, outcome |-> outcome]

\* what a send function hands back to the model: its return value and its sends
Sent(result, sends) == [result |-> result, attempts |-> sends]

\* a provider of the chain that send_whatsapp does not call
Skipped == Sent([success |-> FALSE, method |-> "", error |-> NoError], <<>>)

\* a provider function that hands back a failure without saying what went wrong
ProviderResultWithoutError(provider, outcome) ==
    IF outcome = "ok" THEN Success(provider)
    ELSE [success |-> FALSE, method |-> "", error |-> NoError]

\* how a provider function turns the outcome of its post into a result
ProviderResult(provider, outcome) ==
    IF outcome = "ok" THEN Success(provider)
    ELSE IF outcome = "fail" THEN Failure(provider, "response.text")
    ELSE Failure(provider, "str(e)")

send_sms(to_number, message, msg91) ==
    IF ~Configured("MSG91_AUTH_KEY")
    THEN Sent(Failure("send_sms", "MSG91 auth key not configured"), <<>>)
    ELSE IF message = "none"
    THEN \* message[:50] raises while the payload is built
         Sent(Failure("send_sms", "str(e)"), <<>>)
    ELSE Sent(ProviderResult("msg91", msg91),
              << Attempt("msg91", 1, clean_number(FormatSms(to_number)), msg91) >>)

send_whatsapp_business_api(to_number, message, business_api) ==
    Sent(ProviderResult("business_api", business_api),
         << Attempt("business_api", 1, clean_number(to_number), business_api) >>)

\* endpoints = [...]
GreenEndpoints == 3

\* the endpoints the loop posts to: all of them, or those up to the first
\* that answers 200 with an idMessage
GreenPosted(greenapi) ==
    IF \E i \in 1..GreenEndpoints : greenapi[i] = "ok"
    THEN CHOOSE i \in 1..GreenEndpoints :
            /\ greenapi[i] = "ok"
            /\ \A j \in 1..(i - 1) : greenapi[j] # "ok"
    ELSE GreenEndpoints

send_whatsapp_greenapi(to_number, message, greenapi) ==
    LET n == GreenPosted(greenapi)
        sends == [i \in 1..n |->
                    Attempt("greenapi", i, clean_number(to_number), greenapi[i])]
    IN  IF greenapi[n] = "ok"
        THEN Sent(Success("greenapi"), sends)
        ELSE Sent(Failure("greenapi", "All GreenAPI endpoints failed"), sends)

\* a logging provider that cannot take the message
send_whatsapp_simple_failing(to_number, message) ==
    Sent(Failure("simple", "str(e)"), << Attempt("simple", 1, to_number, "raise") >>)

send_whatsapp_simple(to_number, message) ==
    IF message = "text"
    THEN Sent(Success("simple"), << Attempt("simple", 1, to_number, "ok") >>)
    ELSE \* message[:50] raises inside the log line
         Sent(Failure("simple", "str(e)"), << Attempt("simple", 1, to_number, "raise") >>)

\* a chain that goes on to the later providers after one has accepted
send_whatsapp_every_provider(to_number, message, business_api, greenapi) ==
    LET to == FormatWhatsapp(to_number)
        first == IF Configured("WHATSAPP_TOKEN") /\ Configured("WHATSAPP_PHONE_ID")
                 THEN send_whatsapp_business_api(to, message, business_api)
                 ELSE Skipped
        second == IF Configured("GREENAPI_TOKEN") /\ Configured("GREENAPI_INSTANCE_ID")
                  THEN send_whatsapp_greenapi(to, message, greenapi)
                  ELSE Skipped
        third == send_whatsapp_simple(to, message)
        sends == first.attempts \o second.attempts \o third.attempts
    IN  IF first.result.success THEN Sent(first.result, sends)
        ELSE IF second.result.success THEN Sent(second.result, sends)
        ELSE IF third.result.success THEN Sent(third.result, sends)
        ELSE Sent(Failure("send_whatsapp", "All WhatsApp methods failed"), sends)

\* a chain that calls a real provider as soon as one of its credentials is set
send_whatsapp_either_credential(to_number, message, business_api, greenapi) ==
    LET to == FormatWhatsapp(to_number)
        first == IF Configured("WHATSAPP_TOKEN") \/ Configured("WHATSAPP_PHONE_ID")
                 THEN send_whatsapp_business_api(to, message, business_api)
                 ELSE Skipped
        second == IF Configured("GREENAPI_TOKEN") \/ Configured("GREENAPI_INSTANCE_ID")
                  THEN send_whatsapp_greenapi(to, message, greenapi)
                  ELSE Skipped
        third == send_whatsapp_simple(to, message)
    IN  IF first.result.success THEN first
        ELSE IF second.result.success
        THEN Sent(second.result, first.attempts \o second.attempts)
        ELSE IF third.result.success
        THEN Sent(third.result, first.attempts \o second.attempts \o third.attempts)
        ELSE Sent(Failure("send_whatsapp", "All WhatsApp methods failed"),
                  first.attempts \o second.attempts \o third.attempts)

\* the chain of send_whatsapp: each provider's result and sends, had it been called
send_whatsapp(to_number, message, business_api, greenapi) ==
    LET to == FormatWhatsapp(to_number)
        first == IF Configured("WHATSAPP_TOKEN") /\ Configured("WHATSAPP_PHONE_ID")
                 THEN send_whatsapp_business_api(to, message, business_api)
                 ELSE Skipped
        second == IF Configured("GREENAPI_TOKEN") /\ Configured("GREENAPI_INSTANCE_ID")
                  THEN send_whatsapp_greenapi(to, message, greenapi)
                  ELSE Skipped
        third == send_whatsapp_simple(to, message)
    IN  IF first.result.success THEN first
        ELSE IF second.result.success
        THEN Sent(second.result, first.attempts \o second.attempts)
        ELSE IF third.result.success
        THEN Sent(third.result, first.attempts \o second.attempts \o third.attempts)
        ELSE Sent(Failure("send_whatsapp", "All WhatsApp methods failed"),
                  first.attempts \o second.attempts \o third.attempts)

send_email(to_email, message, smtp) ==
    IF ~Configured("EMAIL_USER") \/ ~Configured("EMAIL_PASSWORD")
    THEN Sent(Failure("send_email", "Email credentials not configured"), <<>>)
    ELSE IF message = "none"
    THEN \* MIMEText(None, 'html') raises before the SMTP session
         Sent(Failure("send_email", "str(e)"), <<>>)
    ELSE Sent(IF smtp = "ok" THEN Success("") ELSE Failure("smtp", "str(e)"),
              << Attempt("smtp", 1, to_email, smtp) >>)

\* a dispatch that sends on every channel, whatever contact values it is given
DispatchAllChannels(phone, email, msg91, business_api, greenapi, smtp) ==
    LET sms == send_sms(phone, "text", msg91)
        whatsapp == send_whatsapp(phone, "text", business_api, greenapi)
        mail == send_email(email, "text", smtp)
    IN  [ results |-> [k \in {"sms", "whatsapp", "email"} |->
                         IF k = "sms" THEN sms.result
                         ELSE IF k = "whatsapp" THEN whatsapp.result
                         ELSE mail.result],
          attempts |-> sms.attempts \o whatsapp.attempts \o mail.attempts ]

\* a dispatch that gives up on the remaining channels once a send has failed
DispatchUntilFailure(phone, email, msg91, business_api, greenapi, smtp) ==
    LET sms == send_sms(phone, "text", msg91)
        whatsapp == send_whatsapp(phone, "text", business_api, greenapi)
        mail == send_email(email, "text", smtp)
        phone_ok == phone = NoValue \/ (sms.result.success /\ whatsapp.result.success)
        keys == (IF phone # NoValue THEN {"sms"} ELSE {})
                \cup (IF phone # NoValue /\ sms.result.success THEN {"whatsapp"} ELSE {})
                \cup (IF email # NoValue /\ phone_ok THEN {"email"} ELSE {})
    IN  [ results |-> [k \in keys |-> IF k = "sms" THEN sms.result
                                      ELSE IF k = "whatsapp" THEN whatsapp.result
                                      ELSE mail.result],
          attempts |-> (IF "sms" \in keys THEN sms.attempts ELSE <<>>)
                       \o (IF "whatsapp" \in keys THEN whatsapp.attempts ELSE <<>>)
                       \o (IF "email" \in keys THEN mail.attempts ELSE <<>>) ]

\* the body the three dispatch functions share: one send per channel that has
\* a contact value, each result stored under the channel's key
Dispatch(phone, email, msg91, business_api, greenapi, smtp) ==
    LET sms == send_sms(phone, "text", msg91)
        whatsapp == send_whatsapp(phone, "text", business_api, greenapi)
        mail == send_email(email, "text", smtp)
        keys == (IF phone # NoValue THEN {"sms", "whatsapp"} ELSE {})
                \cup (IF email # NoValue THEN {"email"} ELSE {})
    IN  [ results |-> [k \in keys |-> IF k = "sms" THEN sms.result
                                      ELSE IF k = "whatsapp" THEN whatsapp.result
                                      ELSE mail.result],
          attempts |-> (IF phone # NoValue THEN sms.attempts \o whatsapp.attempts ELSE <<>>)
                       \o (IF email # NoValue THEN mail.attempts ELSE <<>>) ]

\* the object serves no call
NoCall == [op |-> "idle", phone |-> NoValue, email |-> NoValue, message |-> "text"]
Idle == call = NoCall /\ attempts = <<>> /\ results = <<>>

\* the call of op runs to its return (the object serves one call at a time:
\* each action below starts from Idle)
Serve(op, phone, email, message, returned, sends) ==
    /\ call' = [op |-> op, phone |-> phone, email |-> email, message |-> message]
    /\ results' = returned
    /\ attempts' = sends
    /\ UNCHANGED <<inprogress_orders, user_contacts, food_items, clock, failing,
                   response, dispatched, order_details, credentials, inflight>>

\* the caller has taken the returned value
Return ==
    /\ call # NoCall
    /\ call' = NoCall
    /\ results' = <<>>
    /\ attempts' = <<>>
    /\ UNCHANGED <<inprogress_orders, user_contacts, food_items, clock, failing,
                   response, dispatched, order_details, credentials, inflight>>

\* the numbers the dispatches are given
DispatchNumbers == { n \in Numbers : ~StartsWith(n, <<"+", "9">>) }

\* the contact values a dispatch may be given: user_info.get(...) is falsy for <<>>
PhoneValues == DispatchNumbers \cup {NoValue}
EmailValues == Emails \cup {NoValue}

\* what the endpoints of the bridge may do in one call; the loop stops at the
\* first endpoint that accepts, so the endpoints after it are given no other outcome
GreenOutcomes ==
    { g \in [1..GreenEndpoints -> Outcomes] :
        \A i \in 1..GreenEndpoints, j \in 1..GreenEndpoints :
            (i < j /\ g[i] = "ok") => g[j] = "ok" }

\* smtplib reports a refusal of the server by raising, as it does a lost connection
SmtpOutcomes == {"ok", "raise"}

SendSms ==
    Idle /\
    \E n \in Numbers, m \in Messages, msg91 \in Outcomes :
        LET r == send_sms(n, m, msg91)
        IN  Serve("send_sms", n, NoValue, m, [k \in {"sms"} |-> r.result], r.attempts)

SendWhatsapp ==
    Idle /\
    \E n \in Numbers, m \in Messages, business_api \in Outcomes, greenapi \in GreenOutcomes :
        LET r == send_whatsapp(n, m, business_api, greenapi)
        IN  Serve("send_whatsapp", n, NoValue, m, [k \in {"whatsapp"} |-> r.result], r.attempts)

SendEmail ==
    Idle /\
    \E e \in Emails, m \in Messages, smtp \in SmtpOutcomes :
        LET r == send_email(e, m, smtp)
        IN  Serve("send_email", NoValue, e, m, [k \in {"email"} |-> r.result], r.attempts)

DispatchOps ==
    { "send_order_confirmation", "send_status_update", "send_delivery_notification" }

SendDispatch(op) ==
    Idle /\
    \E phone \in PhoneValues, email \in EmailValues,
       msg91 \in Outcomes, business_api \in Outcomes,
       greenapi \in GreenOutcomes, smtp \in SmtpOutcomes :
        LET r == Dispatch(phone, email, msg91, business_api, greenapi, smtp)
        IN  Serve(op, phone, email, "text", r.results, r.attempts)

SendOrderConfirmation == SendDispatch("send_order_confirmation")
SendStatusUpdate == SendDispatch("send_status_update")
SendDeliveryNotification == SendDispatch("send_delivery_notification")

(***************************************************************************)
(* The requests of the model                                               *)
(***************************************************************************)
StrList(names) == [i \in 1..Len(names) |-> Str(names[i])]

NameLists == UNION { [1..n -> RawNames] : n \in 1..MaxItems }

\* a list of names with a positive quantity for each
WellFormedParams ==
    UNION { { Params("list", StrList(l), "list", q) :
                l \in [1..n -> RawNames], q \in [1..n -> PosTokens] } : n \in 1..MaxItems }

\* a list of names with no quantity list, or an empty one
NoQuantityParams ==
    { Params("list", StrList(l), k, <<>>) : l \in NameLists, k \in {"absent", "list"} }

MalformedParams ==
    { Params("absent", <<>>, "absent", <<>>),
      Params("scalar", <<>>, "absent", <<>>),
      Params("list", <<>>, "list", <<>>),
      Params("list", <<NotStr>>, "list", << <<"1">> >>),
      Params("list", <<Str(<<"!">>)>>, "list", << <<"1">> >>),
      Params("list", <<Str(<<"A">>)>>, "scalar", <<>>),
      Params("list", <<Str(<<"A">>)>>, "list", << <<"1">>, <<"1">> >>),
      Params("list", <<Str(<<"A">>)>>, "list", << <<"x">> >>),
      Params("list", <<Str(<<"A">>)>>, "list", << <<"0">> >>),
      Params("list", <<Str(<<"A">>)>>, "list", << <<"-", "1">> >>),
      Params("list", <<Str(<<"A", "!">>), Str(<<" ", "a">>)>>, "list", << <<"1">>, <<"2">> >>) }

OrderParams == WellFormedParams \cup NoQuantityParams \cup MalformedParams

\* the few requests of the specifications that also move the environment
FewParams ==
    { Params("list", StrList(<< <<"A", "!">> >>), "list", << <<"1">> >>),
      Params("list", StrList(<< <<"b">> >>), "list", << <<"2">> >>),
      Params("list", StrList(<< <<"A", "!">>, <<"b">> >>), "list", << <<"1">>, <<"1">> >>) }

(***************************************************************************)
(* The specification                                                       *)
(***************************************************************************)
\* int(time.time()) of the first request: a positive number of seconds
Epoch == 1

Init ==
    /\ inprogress_orders = <<>>
    /\ user_contacts = <<>>
    /\ food_items = Menu
    /\ clock = Epoch
    /\ failing = {}
    /\ response = NoResponse
    /\ dispatched = {}
    /\ order_details = NoDetails
    /\ credentials = CredentialNames
    /\ Idle
    /\ inflight = <<>>

AddItems == \E s \in Sessions, p \in OrderParams : add_to_order(p, s)

RemoveItems == \E s \in Sessions, p \in OrderParams : remove_from_order(p, s)

Summarize == \E s \in Sessions : order_summary_intent(s)

Commit == \E s \in Sessions, sms_ok \in BOOLEAN, email_ok \in BOOLEAN :
              complete_order(s, sms_ok, email_ok)

CollectPhone == \E s \in Sessions, v \in Phones \cup {NoValue} : collect_phone_number(v, s)

CollectEmail == \E s \in Sessions, v \in Emails \cup {NoValue} : collect_email(v, s)

SendNotifications == \E s \in Sessions, sms_ok \in BOOLEAN, email_ok \in BOOLEAN :
                         send_notifications(s, sms_ok, email_ok)

TrackOrder == \E s \in Sessions, id \in OrderIdTexts, status_found \in BOOLEAN :
                  track_order(id, status_found, s)

UnknownIntent == \E s \in Sessions : unknown_intent(s)

Next ==
    \/ AddItems
    \/ RemoveItems
    \/ Summarize
    \/ Commit
    \/ CollectPhone
    \/ CollectEmail
    \/ SendNotifications
    \/ TrackOrder
    \/ UnknownIntent

Spec == Init /\ [][Next]_vars

\* The same handlers under a moving clock and an edited menu, with few requests.
AddFew == \E s \in Sessions, p \in FewParams : add_to_order(p, s)

RemoveFew == \E s \in Sessions, p \in FewParams : remove_from_order(p, s)

EditPrice == \E f \in food_items, price \in Prices : edit_menu_item(f, price)

NextEnv ==
    \/ Tick
    \/ EditPrice
    \/ AddFew
    \/ RemoveFew
    \/ Summarize
    \/ Commit
    \/ CollectPhone
    \/ CollectEmail
    \/ SendNotifications

SpecEnv == Init /\ [][NextEnv]_vars

\* The same handlers over a store whose calls may raise, with few requests.
NextFault ==
    \/ StoreChanges
    \/ AddFew
    \/ RemoveFew
    \/ Summarize
    \/ Commit
    \/ CollectPhone
    \/ CollectEmail
    \/ SendNotifications

SpecFault == Init /\ [][NextFault]_vars

\* The handlers without order.complete: no order is ever placed.
NextNoCommit ==
    \/ AddFew
    \/ RemoveFew
    \/ Summarize
    \/ CollectPhone
    \/ CollectEmail
    \/ SendNotifications
    \/ TrackOrder
    \/ UnknownIntent

SpecNoCommit == Init /\ [][NextNoCommit]_vars

(***************************************************************************)
(* The notification system on its own: any credentials, one call at a time *)
(***************************************************************************)
InitNotify ==
    /\ inprogress_orders = <<>>
    /\ user_contacts = <<>>
    /\ food_items = Menu
    /\ clock = Epoch
    /\ failing = {}
    /\ response = NoResponse
    /\ dispatched = {}
    /\ order_details = NoDetails
    /\ credentials \in SUBSET CredentialNames
    /\ Idle
    /\ inflight = <<>>

NextNotify ==
    \/ SendSms
    \/ SendWhatsapp
    \/ SendEmail
    \/ SendOrderConfirmation
    \/ SendStatusUpdate
    \/ SendDeliveryNotification
    \/ Return

SpecNotify == InitNotify /\ [][NextNotify]_vars

(***************************************************************************)
(* Two server processes on one store.  The handlers take no lock and use   *)
(* no atomic update: a request reads the cart record (get_order), works on *)
(* its own copy and later writes the copy back (set_order, delete_order).  *)
(* Here the read and the write of add_to_order and remove_from_order are   *)
(* two steps, so that requests of two processes can overlap.               *)
(***************************************************************************)
Workers == {"w1", "w2"}

\* the handler's result for the request, computed from the store as it is read
HandlerResult(op, parameters, session_id) ==
    IF op = "add" THEN AddResult(parameters, session_id)
    ELSE RemoveResult(parameters, session_id)

\* the store call the handler ends with: none on its error returns, else
\* delete_order(session_id) or set_order(session_id, current_order)
PendingWrite(r, session_id) ==
    IF r.response.status_code # "success" THEN [kind |-> "none", order |-> EmptyOrder]
    ELSE IF session_id \in DOMAIN r.stored
    THEN [kind |-> "set", order |-> r.stored[session_id]]
    ELSE [kind |-> "delete", order |-> EmptyOrder]

\* the process has run the handler up to its store write: validation,
\* get_order and the loop over the items, all on the cart as it is now
Begin(w, op, parameters, session_id) ==
    /\ w \notin DOMAIN inflight
    /\ \E r \in {HandlerResult(op, parameters, session_id)} :
         /\ WithinBound(r.stored)
         /\ inflight' =
              [x \in DOMAIN inflight \cup {w} |->
                 IF x = w
                 THEN [pc |-> "read", op |-> op, session_id |-> session_id,
                       parameters |-> parameters, read |-> get_order(session_id),
                       write |-> PendingWrite(r, session_id), response |-> r.response]
                 ELSE inflight[x]]
    /\ UNCHANGED <<inprogress_orders, user_contacts, food_items, clock, failing,
                   response, dispatched, order_details, notifier>>

\* a write that runs the handler again on the cart as it is at the write
WriteBackSerialized(w) ==
    HandlerResult(inflight[w].op, inflight[w].parameters, inflight[w].session_id).stored

\* the collection after the handler's store call, made with its own copy of the cart
WriteBack(w) ==
    IF inflight[w].write.kind = "set"
    THEN set_order(inflight[w].session_id, inflight[w].write.order)
    ELSE IF inflight[w].write.kind = "delete"
    THEN delete_order(inflight[w].session_id)
    ELSE inprogress_orders

\* the process makes its store call and returns its JSONResponse
Finish(w) ==
    /\ w \in DOMAIN inflight
    /\ inflight[w].pc = "read"
    /\ inprogress_orders' = WriteBack(w)
    /\ response' = inflight[w].response
    /\ dispatched' = {}
    /\ order_details' = NoDetails
    /\ inflight' = [inflight EXCEPT ![w].pc = "done"]
    /\ UNCHANGED <<user_contacts, food_items, clock, failing, notifier>>

\* the answered request leaves the process
Forget(w) ==
    /\ w \in DOMAIN inflight
    /\ inflight[w].pc = "done"
    /\ inflight' = [x \in DOMAIN inflight \ {w} |-> inflight[x]]
    /\ UNCHANGED <<inprogress_orders, user_contacts, food_items, clock, failing,
                   response, dispatched, order_details, notifier>>

BeginAdd == \E w \in Workers, s \in Sessions, p \in FewParams : Begin(w, "add", p, s)

BeginRemove == \E w \in Workers, s \in Sessions, p \in FewParams : Begin(w, "remove", p, s)

FinishWrite == \E w \in Workers : Finish(w)

ForgetRequest == \E w \in Workers : Forget(w)

NextRace ==
    \/ BeginAdd
    \/ BeginRemove
    \/ FinishWrite
    \/ ForgetRequest

SpecRace == Init /\ [][NextRace]_vars

(***************************************************************************)
(* Two sessions: the requests of two users arrive in any order, each       *)
(* handled as one step                                                     *)
(***************************************************************************)
TwoSessions == {"s1", "s2"}

\* the requests of the two users: those of FewParams that name one item
OneItemParams == { p \in FewParams : Len(p.food) = 1 }

AddEither == \E s \in TwoSessions, p \in OneItemParams : add_to_order(p, s)

RemoveEither == \E s \in TwoSessions, p \in OneItemParams : remove_from_order(p, s)

SummarizeEither == \E s \in TwoSessions : order_summary_intent(s)

\* the providers accept every send here: their outcomes reach the reply only
CommitEither == \E s \in TwoSessions : complete_order(s, TRUE, TRUE)

CollectPhoneEither == \E s \in TwoSessions, v \in Phones \cup {NoValue} : collect_phone_number(v, s)

CollectEmailEither == \E s \in TwoSessions, v \in Emails \cup {NoValue} : collect_email(v, s)

SendNotificationsEither == \E s \in TwoSessions : send_notifications(s, TRUE, TRUE)

NextTwo ==
    \/ AddEither
    \/ RemoveEither
    \/ SummarizeEither
    \/ CommitEither
    \/ CollectPhoneEither
    \/ CollectEmailEither
    \/ SendNotificationsEither

SpecTwo == Init /\ [][NextTwo]_vars

(***************************************************************************)
(* Vocabulary of the properties                                            *)
(***************************************************************************)
\* the cart a collection holds for a session (none: the empty mapping)
CartIn(collection, s) == IF s \in DOMAIN collection THEN collection[s] ELSE <<>>

\* the quantity of an item in a cart, 0 if absent
QtyIn(cart, name) == IF name \in DOMAIN cart THEN cart[name] ELSE 0

\* the normalised names of the catalog
CatalogNames == { Lower(f.name) : f \in food_items }

\* the request carries a non-empty list of names
ListsNames(p) ==
    p.food_kind = "list" /\ p.food # <<>> /\ \A i \in 1..Len(p.food) : p.food[i].str

\* the normalised name of the i-th item of the request
NameAt(p, i) == sanitize_food_item(p.food[i].chars)

NamesOf(p) == { NameAt(p, i) : i \in 1..Len(p.food) }

\* the request carries no quantity list at all (absent or empty)
NoQuantities(p) == p.number_kind = "absent" \/ (p.number_kind = "list" /\ p.number = <<>>)

\* the request carries one positive integer quantity for each item
QuantityForEach(p) ==
    /\ p.number_kind = "list"
    /\ Len(p.number) = Len(p.food)
    /\ \A i \in 1..Len(p.number) : IsIntText(p.number[i]) /\ IntOf(p.number[i]) > 0

\* the quantity requested for the i-th item: 1 when no quantity list is given
RequestedAt(p, i) == IF NoQuantities(p) THEN 1 ELSE IntOf(p.number[i])

\* the sum of the quantities requested for a normalised name, over positions i..
RECURSIVE RequestedFor(_, _, _)
RequestedFor(p, name, i) ==
    IF i > Len(p.food) THEN 0
    ELSE (IF NameAt(p, i) = name THEN RequestedAt(p, i) ELSE 0) + RequestedFor(p, name, i + 1)

AllNames == CatalogNames \cup UNION { NamesOf(p) : p \in { q \in OrderParams : ListsNames(q) } }

Range(seq) == { seq[i] : i \in 1..Len(seq) }

\* q lists the (item, quantity) pairs of p in another order
PermutationOf(p, q) ==
    /\ Len(p.food) = Len(q.food)
    /\ \E f \in [1..Len(p.food) -> 1..Len(p.food)] :
          /\ \A i, j \in 1..Len(p.food) : f[i] = f[j] => i = j
          /\ \A i \in 1..Len(p.food) :
                q.food[i] = p.food[f[i]] /\ q.number[i] = p.number[f[i]]

PlacedTexts ==
    { "Order placed. Please provide your phone number",
      "Order placed. To receive SMS and WhatsApp updates",
      "Order placed. To receive email notifications",
      "Order placed. Order confirmation sent",
      "Order placed. Notification sending failed" }

(***************************************************************************)
(* Properties                                                              *)
(***************************************************************************)

\* C1: whenever the item list of an AddItems call has a name that is not in
\* the catalog, the call returns an error and leaves the stored carts as they
\* were.
C1_AddAllOrNothing ==
    [][\A s \in Sessions, p \in OrderParams :
          (/\ add_to_order(p, s)
           /\ ListsNames(p)
           /\ \E n \in NamesOf(p) : n \notin CatalogNames)
          => /\ response'.status_code = "error"
             /\ inprogress_orders' = inprogress_orders]_vars

\* C2: after a successful AddItems that gives a quantity for each item, every
\* item's stored quantity is its quantity before plus the sum of the quantities
\* the call requested for that normalised name, repeated names included; other
\* entries are unchanged.
C2_AddMergesAdditively ==
    [][\A s \in Sessions, p \in OrderParams :
          (/\ add_to_order(p, s)
           /\ QuantityForEach(p)
           /\ response'.status_code = "success")
          => \A n \in AllNames :
                QtyIn(CartIn(inprogress_orders', s), n)
                   = QtyIn(CartIn(inprogress_orders, s), n) + RequestedFor(p, n, 1)]_vars

\* C3: an AddItems call over catalog items leaves the stored cart that any
\* permutation of its (item, quantity) pairs would have left.
C3_AddOrderIrrelevant ==
    [][\A s \in Sessions, p \in WellFormedParams, q \in WellFormedParams :
          (/\ add_to_order(p, s)
           /\ NamesOf(p) \subseteq CatalogNames
           /\ PermutationOf(p, q))
          => inprogress_orders' = AddResult(q, s).stored]_vars

\* C4: an AddItems call over catalog items that carries no quantity list
\* (absent or empty) succeeds and adds 1 for each named item.
C4_AddDefaultsToOne ==
    [][\A s \in Sessions, p \in OrderParams :
          (/\ add_to_order(p, s)
           /\ ListsNames(p)
           /\ NoQuantities(p)
           /\ NamesOf(p) \subseteq CatalogNames)
          => /\ response'.status_code = "success"
             /\ \A n \in AllNames :
                   QtyIn(CartIn(inprogress_orders', s), n)
                      = QtyIn(CartIn(inprogress_orders, s), n) + RequestedFor(p, n, 1)]_vars

\* C5: after a successful RemoveItems every named item that was in the cart is
\* absent from the stored cart, and the quantity reported as removed for it is
\* the smaller of the stored and the requested quantity (1 when no quantities
\* are given).
C5_RemoveClearsEntry ==
    \A s \in Sessions, p \in OrderParams :
        RemoveResult(p, s).response.status_code = "success"
        => \A i \in 1..Len(p.food) :
              NameAt(p, i) \in DOMAIN CartIn(inprogress_orders, s)
              => /\ NameAt(p, i) \notin DOMAIN CartIn(RemoveResult(p, s).stored, s)
                 /\ << Min(CartIn(inprogress_orders, s)[NameAt(p, i)], RequestedAt(p, i)),
                       NameAt(p, i) >> \in Range(RemoveResult(p, s).response.removed_items)

\* the stored cart holds an entry of 2 or more, a RemoveItems has just reported
\* a smaller quantity removed, and the item is gone
C5_Witness ==
    /\ response.text = "Removed. Here is what is left"
    /\ \E i \in 1..Len(response.removed_items) :
          /\ response.removed_items[i][1] >= 2
          /\ \A s \in Sessions : response.removed_items[i][2] \notin DOMAIN CartIn(inprogress_orders, s)

\* C6: a valid RemoveItems call that names an item the cart does not have
\* succeeds, reports that item as not found and removes every other named item
\* the cart has.
C6_RemoveAbsentNonFatal ==
    [][\A s \in Sessions, p \in OrderParams :
          (/\ remove_from_order(p, s)
           /\ ListsNames(p)
           /\ NoQuantities(p) \/ QuantityForEach(p)
           /\ \E n \in NamesOf(p) : n \notin DOMAIN CartIn(inprogress_orders, s))
          => /\ response'.status_code = "success"
             /\ \A n \in NamesOf(p) :
                   /\ n \notin DOMAIN CartIn(inprogress_orders, s)
                      => n \in Range(response'.no_such_items)
                   /\ n \notin DOMAIN CartIn(inprogress_orders', s)]_vars

\* C7: a successful RemoveItems that leaves no entries deletes the session's
\* cart record, and a Summarize on a session without a cart record fails with
\* the empty-cart error.
C7_LastItemDeletesCart ==
    /\ [](\A s \in Sessions, p \in OrderParams :
            (/\ RemoveResult(p, s).response.status_code = "success"
             /\ RemoveResult(p, s).response.remaining_items = <<>>)
            => s \notin DOMAIN RemoveResult(p, s).stored)
    /\ [][\A s \in Sessions :
            (s \notin DOMAIN inprogress_orders /\ order_summary_intent(s))
            => /\ response'.status_code = "error"
               /\ response'.text = "You don't have any items in your order yet."]_vars

\* a RemoveItems has just emptied the cart and no record is left
C7_Witness ==
    /\ response.text = "Removed. Your order is empty!"
    /\ response.removed_items # <<>>
    /\ inprogress_orders = <<>>

\* C8: every entry of every stored cart is an integer greater than 0.
C8_QuantitiesPositive ==
    \A s \in DOMAIN inprogress_orders :
        \A n \in DOMAIN inprogress_orders[s] :
            inprogress_orders[s][n] \in Int /\ inprogress_orders[s][n] > 0

\* a RemoveItems has just left a cart with entries behind
C8_Witness ==
    /\ response.text = "Removed. Here is what is left"
    /\ \E s \in DOMAIN inprogress_orders : inprogress_orders[s] # <<>>

\* C9: a cart record exists only for a session whose cart holds an item.
C9_NoEmptyCartRecord ==
    \A s \in DOMAIN inprogress_orders : inprogress_orders[s] # <<>>

\* C10: a Commit, successful or failing, leaves the cart records and the
\* contact records as they were: a step that changes one of them is no Commit.
C10_CommitKeepsState ==
    [][\A s \in Sessions, sms_ok \in BOOLEAN, email_ok \in BOOLEAN :
          \/ /\ inprogress_orders' = inprogress_orders
             /\ user_contacts' = user_contacts
          \/ ~complete_order(s, sms_ok, email_ok)]_vars

\* a Commit has just placed an order and the cart record is still stored
C10_Witness ==
    /\ response.text \in PlacedTexts
    /\ response.total_price > 0
    /\ \E s \in DOMAIN inprogress_orders : inprogress_orders[s] # <<>>

\* the last request was a Commit that placed an order
LastWasCommit == response.text \in PlacedTexts

\* C11: the first AddItems that succeeds right after a successful Commit leaves
\* a stored cart that holds only the items of that call: no entry exceeds what
\* the call requested for its name, so nothing of the committed cart is left.
C11_NextOrderStartsEmpty ==
    [][\A s \in Sessions, p \in OrderParams :
          (/\ LastWasCommit
           /\ add_to_order(p, s)
           /\ response'.status_code = "success")
          => \A n \in AllNames :
                QtyIn(CartIn(inprogress_orders', s), n) <= RequestedFor(p, n, 1)]_vars

\* C12: a Commit on a session whose stored cart holds nothing answers with the
\* empty-cart error, carries no order id, asks for no notification and leaves
\* the cart records and the contact records as they were.
C12_CommitWithoutCart ==
    [][\A s \in Sessions, sms_ok \in BOOLEAN, email_ok \in BOOLEAN :
          (/\ CartIn(inprogress_orders, s) = <<>>
           /\ complete_order(s, sms_ok, email_ok))
          => /\ response'.status_code = "error"
             /\ response'.text = "I'm having trouble finding your order."
             /\ response'.order_id = 0
             /\ dispatched' = {}
             /\ inprogress_orders' = inprogress_orders
             /\ user_contacts' = user_contacts]_vars

\* a Commit has just failed for want of a cart while a phone number and an
\* email were stored
C12_Witness ==
    /\ response.text = "I'm having trouble finding your order."
    /\ \E s \in DOMAIN user_contacts :
          /\ CartIn(inprogress_orders, s) = <<>>
          /\ DOMAIN user_contacts[s] = {"phone", "email"}

\* C13: a Commit that places an order right after another Commit placed one
\* (the same cart, however little time has passed) returns a different order id.
C13_OrderIdsUnique ==
    [][\A s \in Sessions, sms_ok \in BOOLEAN, email_ok \in BOOLEAN :
          (/\ LastWasCommit
           /\ complete_order(s, sms_ok, email_ok)
           /\ response'.text \in PlacedTexts)
          => response'.order_id # response.order_id]_vars

\* the catalog price of a normalised name in this state, 0 for a name the
\* catalog does not have
PriceOf(name) ==
    LET hits == { f \in food_items : Lower(f.name) = name }
    IN  IF hits = {} THEN 0 ELSE (CHOOSE f \in hits : TRUE).price

\* the sum over the names given of quantity times catalog price
RECURSIVE AmountOver(_, _)
AmountOver(cart, names) ==
    IF names = {} THEN 0
    ELSE LET n == CHOOSE x \in names : TRUE
         IN  cart[n] * PriceOf(n) + AmountOver(cart, names \ {n})

\* the sum over the names given of the quantities
RECURSIVE CountOver(_, _)
CountOver(cart, names) ==
    IF names = {} THEN 0
    ELSE LET n == CHOOSE x \in names : TRUE
         IN  cart[n] + CountOver(cart, names \ {n})

\* C14: the total a successful Commit returns is the sum over the stored cart
\* of quantity times the catalog price at the time of the Commit, whatever the
\* prices were when the items were added; a Commit that directly follows a
\* Commit, with cart and prices as they were, returns the same total.
C14_CommitPricesAtCommit ==
    [][\A s \in Sessions, sms_ok \in BOOLEAN, email_ok \in BOOLEAN :
          (/\ complete_order(s, sms_ok, email_ok)
           /\ response'.text \in PlacedTexts)
          => /\ response'.total_price
                   = AmountOver(CartIn(inprogress_orders, s),
                                DOMAIN CartIn(inprogress_orders, s))
             /\ LastWasCommit => response'.total_price = response.total_price]_vars

\* a Commit has just placed an order holding an item whose price the menu
\* editor has changed, and its total is the one at the changed price
C14_Witness ==
    /\ LastWasCommit
    /\ \E s \in DOMAIN inprogress_orders :
          /\ response.total_price
                = AmountOver(inprogress_orders[s], DOMAIN inprogress_orders[s])
          /\ \E n \in DOMAIN inprogress_orders[s], f \in Menu :
                Lower(f.name) = n /\ f.price # PriceOf(n)

\* C15: a successful Summarize reports as total items the sum of the stored
\* quantities and as total amount the sum of quantity times current catalog
\* price, which is the total a Commit of the same cart returns.
C15_SummaryAgreesWithCommit ==
    [][\A s \in Sessions :
          (/\ order_summary_intent(s)
           /\ response'.status_code = "success")
          => /\ response'.total_items
                   = CountOver(CartIn(inprogress_orders, s),
                               DOMAIN CartIn(inprogress_orders, s))
             /\ response'.total_price
                   = AmountOver(CartIn(inprogress_orders, s),
                                DOMAIN CartIn(inprogress_orders, s))
             /\ \A sms_ok \in BOOLEAN, email_ok \in BOOLEAN :
                   /\ CompleteResponse(s, sms_ok, email_ok).text \in PlacedTexts
                   /\ CompleteResponse(s, sms_ok, email_ok).total_price
                         = response'.total_price]_vars

\* a Summarize has just reported a cart of two items with three units or more,
\* at prices the menu editor has changed
C15_Witness ==
    /\ response.text = "Your order summary"
    /\ response.total_items >= 3
    /\ response.total_price > 0
    /\ food_items # Menu
    /\ \E s \in DOMAIN inprogress_orders : Cardinality(DOMAIN inprogress_orders[s]) = 2

\* C16: a Summarize leaves the cart records and the contact records as they
\* were; it answers with the empty-cart error when the session's stored cart
\* holds nothing, and with success otherwise.
C16_SummarizeReadOnly ==
    [][\A s \in Sessions :
          order_summary_intent(s)
          => /\ inprogress_orders' = inprogress_orders
             /\ user_contacts' = user_contacts
             /\ IF CartIn(inprogress_orders, s) = <<>>
                THEN /\ response'.status_code = "error"
                     /\ response'.text = "You don't have any items in your order yet."
                ELSE response'.status_code = "success"]_vars

\* a Summarize has just succeeded for a session that has a cart and a contact
\* record, both still stored
C16_Witness ==
    /\ response.text = "Your order summary"
    /\ \E s \in DOMAIN inprogress_orders \cap DOMAIN user_contacts :
          inprogress_orders[s] # <<>>

\* the request is answered with an error and the cart records and the contact
\* records are as they were
FailsCleanly ==
    /\ response'.status_code = "error"
    /\ inprogress_orders' = inprogress_orders
    /\ user_contacts' = user_contacts

\* C17: a request during which a store call raises is answered with an error
\* and leaves the stored records as they were.  The calls named are those every
\* such request makes: AddItems over catalog items reads the cart, looks the
\* item up and writes the cart; RemoveItems, Summarize and Commit read the cart;
\* CollectContact with a value writes that value and reads the other one.
C17_StorageFailureIsError ==
    [][/\ \A s \in Sessions, p \in FewParams :
             (/\ failing \cap {"get_inprogress_order", "food_item_exists",
                               "set_inprogress_order"} # {}
              /\ add_to_order(p, s)) => FailsCleanly
       /\ \A s \in Sessions, p \in FewParams :
             ("get_inprogress_order" \in failing /\ remove_from_order(p, s))
             => FailsCleanly
       /\ \A s \in Sessions :
             ("get_inprogress_order" \in failing /\ order_summary_intent(s))
             => FailsCleanly
       /\ \A s \in Sessions, sms_ok \in BOOLEAN, email_ok \in BOOLEAN :
             ("get_inprogress_order" \in failing /\ complete_order(s, sms_ok, email_ok))
             => FailsCleanly
       /\ \A s \in Sessions, v \in Phones :
             (/\ failing \cap {"set_user_phone", "get_user_email"} # {}
              /\ collect_phone_number(v, s)) => FailsCleanly
       /\ \A s \in Sessions, v \in Emails :
             (/\ failing \cap {"set_user_email", "get_user_phone"} # {}
              /\ collect_email(v, s)) => FailsCleanly]_vars

\* the request supplies a quantity list (a non-empty one) that has another
\* length than the item list, or an entry that is no integer or is not positive
QuantitiesInvalid(p) ==
    /\ p.number_kind = "list"
    /\ p.number # <<>>
    /\ \/ Len(p.number) # Len(p.food)
       \/ \E i \in 1..Len(p.number) : ~IsIntText(p.number[i])
       \/ \E i \in 1..Len(p.number) : IsIntText(p.number[i]) /\ IntOf(p.number[i]) <= 0

ValidationTexts ==
    { "Please specify valid food items.",
      "Please specify quantity for each food item.",
      "Quantities must be numbers.",
      "Quantities must be positive numbers." }

\* C18: an AddItems or RemoveItems call whose item list is not a non-empty list
\* of strings, or whose quantity list is invalid, is answered with an error and
\* leaves the cart records as they were; a CollectContact call with an empty
\* value is answered with an error and leaves every record as it was.
C18_ValidationHasNoEffect ==
    /\ [](\A s \in Sessions, p \in OrderParams :
            (~ListsNames(p) \/ QuantitiesInvalid(p))
            => /\ AddResult(p, s).response.status_code = "error"
               /\ AddResult(p, s).stored = inprogress_orders
               /\ RemoveResult(p, s).response.status_code = "error"
               /\ RemoveResult(p, s).stored = inprogress_orders)
    /\ [][\A s \in Sessions :
            (collect_phone_number(NoValue, s) \/ collect_email(NoValue, s))
            => /\ response'.status_code = "error"
               /\ inprogress_orders' = inprogress_orders
               /\ user_contacts' = user_contacts]_vars

\* a request has just been refused by the validation while a cart and a
\* contact record were stored
C18_Witness ==
    /\ response.text \in ValidationTexts
    /\ response.status_code = "error"
    /\ \E s \in DOMAIN inprogress_orders \cap DOMAIN user_contacts :
          inprogress_orders[s] # <<>>

\* a value is stored for the session's contact field
HasContact(s, field) ==
    /\ s \in DOMAIN user_contacts
    /\ field \in DOMAIN user_contacts[s]
    /\ user_contacts[s][field] # <<>>

\* C19: a Commit that places an order asks for the confirmation by SMS and by
\* WhatsApp when a phone number is stored for the session, and by email when an
\* email is stored, whether or not the other contact value is stored.
C19_CommitNotifiesStoredContacts ==
    [][\A s \in Sessions, sms_ok \in BOOLEAN, email_ok \in BOOLEAN :
          (/\ complete_order(s, sms_ok, email_ok)
           /\ response'.text \in PlacedTexts)
          => /\ HasContact(s, "phone") => {"sms", "whatsapp"} \subseteq dispatched'
             /\ HasContact(s, "email") => "email" \in dispatched']_vars

\* C20: while no Commit has placed an order for the session, no request asks
\* for an order confirmation on any channel (SpecNoCommit has no Commit, so
\* none of its carts is ever committed).
C20_NoDispatchBeforeCommit == dispatched = {}

(***************************************************************************)
(* Vocabulary of the notification properties                               *)
(***************************************************************************)
\* the channel a provider belongs to
ChannelOf(provider) ==
    IF provider = "msg91" THEN "sms"
    ELSE IF provider = "smtp" THEN "email"
    ELSE "whatsapp"

\* the sends of the call being served that went to a provider / through a channel
SendsTo(provider) == { i \in DOMAIN attempts : attempts[i].provider = provider }
SendsOn(channel) == { i \in DOMAIN attempts : ChannelOf(attempts[i].provider) = channel }

\* the call being served is one of the three dispatches
Dispatching == call.op \in DispatchOps

\* the contact value the call was given for a channel
ContactFor(channel) == IF channel = "email" THEN call.email ELSE call.phone

Channels == {"sms", "whatsapp", "email"}

(***************************************************************************)
(* C21: the outcome of a dispatch (order confirmation, status update,      *)
(* delivery notice) has the keys sms and whatsapp exactly when a non-empty *)
(* phone was supplied and the key email exactly when a non-empty email was *)
(* supplied; a channel with no contact value is neither sent on nor        *)
(* reported.                                                               *)
(***************************************************************************)
C21_OutcomeKeysFollowContacts ==
    Dispatching =>
        \A ch \in Channels :
            /\ (ch \in DOMAIN results) <=> (ContactFor(ch) # <<>>)
            /\ (ContactFor(ch) = <<>>) => SendsOn(ch) = {}

\* a status update for a phone number alone has been sent over its two channels
C21_Witness ==
    /\ call.op = "send_status_update"
    /\ call.phone # <<>>
    /\ call.email = <<>>
    /\ DOMAIN results = {"sms", "whatsapp"}
    /\ SendsOn("sms") # {}
    /\ SendsOn("whatsapp") # {}

\* the credentials a channel needs before it sends anything: the SMS provider's
\* key, the mail account; the chat channel always has its logging provider
ChannelReady(channel) ==
    IF channel = "sms" THEN "MSG91_AUTH_KEY" \in credentials
    ELSE IF channel = "email" THEN {"EMAIL_USER", "EMAIL_PASSWORD"} \subseteq credentials
    ELSE TRUE

\* a send on the channel was accepted
AcceptedOn(channel) == \E i \in SendsOn(channel) : attempts[i].outcome = "ok"

(***************************************************************************)
(* C22: channel failure isolation.  Whatever the providers do (accept,     *)
(* report a failure, raise), every channel of a dispatch that has a        *)
(* contact value has an entry of its own in the outcome and, when it has   *)
(* the credentials to send, is sent on; the entry tells what happened on   *)
(* that channel alone, so a failure on one channel neither prevents nor    *)
(* changes the others.                                                     *)
(***************************************************************************)
C22_ChannelsAreIsolated ==
    Dispatching =>
        \A ch \in Channels :
            ContactFor(ch) # <<>> =>
                /\ ch \in DOMAIN results
                /\ ChannelReady(ch) => SendsOn(ch) # {}
                /\ results[ch].success <=> AcceptedOn(ch)

\* the SMS transport raised and the business API reported a failure, yet the
\* chat message went out through a later provider and the e-mail was accepted
C22_Witness ==
    /\ Dispatching
    /\ call.phone # <<>> /\ call.email # <<>>
    /\ \E i \in SendsOn("sms") : attempts[i].outcome = "raise"
    /\ \E i \in SendsTo("business_api") : attempts[i].outcome = "fail"
    /\ ~results["sms"].success
    /\ results["whatsapp"].success
    /\ results["email"].success

\* the place of a chat provider in the fallback order
Rank(provider) ==
    IF provider = "business_api" THEN 1
    ELSE IF provider = "greenapi" THEN 2
    ELSE 3

ChatProviders == {"business_api", "greenapi", "simple"}

\* both credentials of a real chat provider are set (the logging provider has none)
ProviderReady(provider) ==
    IF provider = "business_api" THEN {"WHATSAPP_TOKEN", "WHATSAPP_PHONE_ID"} \subseteq credentials
    ELSE IF provider = "greenapi" THEN {"GREENAPI_TOKEN", "GREENAPI_INSTANCE_ID"} \subseteq credentials
    ELSE TRUE

\* the provider was sent to before send j, and none of its sends was accepted
TriedAndFailedBefore(provider, j) ==
    /\ \E i \in SendsTo(provider) : i < j
    /\ \A i \in SendsTo(provider) : i < j /\ attempts[i].outcome # "ok"

(***************************************************************************)
(* C23: the chat channel tries its providers in the order business API,    *)
(* bridge, logging provider: a send to a provider comes only after every   *)
(* earlier provider that is configured has been sent to and has failed,    *)
(* and nothing is sent on the channel after a send that was accepted.      *)
(***************************************************************************)
C23_ChatFallbackOrder ==
    \A j \in SendsOn("whatsapp") :
        /\ \A i \in SendsOn("whatsapp") :
                i < j => /\ Rank(attempts[i].provider) <= Rank(attempts[j].provider)
                         /\ attempts[i].outcome # "ok"
        /\ \A q \in ChatProviders :
                (Rank(q) < Rank(attempts[j].provider) /\ ProviderReady(q))
                    => TriedAndFailedBefore(q, j)

\* the business API and the bridge were both sent to and failed, and the
\* logging provider took the message
C23_Witness ==
    /\ \E i \in SendsTo("business_api") : attempts[i].outcome = "raise"
    /\ SendsTo("greenapi") # {}
    /\ \A i \in SendsTo("greenapi") : attempts[i].outcome # "ok"
    /\ \E i \in SendsTo("simple") : attempts[i].outcome = "ok" /\ i = Len(attempts)
    /\ results["whatsapp"].success

\* the call being served went through the chat channel
ChatCall == "whatsapp" \in DOMAIN results

\* where the error of a result was raised (none: the empty text)
ErrorSource(result) == IF result.error = <<>> THEN "" ELSE result.error[1]

\* the chain went past the provider: a later provider was sent to
WentPast(provider) ==
    \E i \in SendsOn("whatsapp") : Rank(attempts[i].provider) > Rank(provider)

\* a provider before this one accepted the message
AcceptedBefore(provider) ==
    \E i \in SendsOn("whatsapp") :
        Rank(attempts[i].provider) < Rank(provider) /\ attempts[i].outcome = "ok"

RealProviders == {"business_api", "greenapi"}

(***************************************************************************)
(* C24: a chat provider that lacks either of its two credentials is        *)
(* skipped: nothing is sent to it, the channel result carries no error of  *)
(* it, and the chain goes on to the providers after it (unless a provider  *)
(* before it has already accepted the message).                            *)
(***************************************************************************)
C24_UnconfiguredProviderSkipped ==
    ChatCall =>
        \A p \in RealProviders :
            ~ProviderReady(p) =>
                /\ SendsTo(p) = {}
                /\ ErrorSource(results["whatsapp"]) # p
                /\ AcceptedBefore(p) \/ WentPast(p)

\* the business API has its token but no phone id: the chain skipped it and
\* the bridge accepted the message
C24_Witness ==
    /\ ChatCall
    /\ "WHATSAPP_TOKEN" \in credentials
    /\ "WHATSAPP_PHONE_ID" \notin credentials
    /\ SendsTo("business_api") = {}
    /\ \E i \in SendsTo("greenapi") : attempts[i].outcome = "ok"
    /\ results["whatsapp"].method = "greenapi"

\* the provider was sent to and none of its sends was accepted
TriedAndFailed(provider) ==
    /\ SendsTo(provider) # {}
    /\ \A i \in SendsTo(provider) : attempts[i].outcome # "ok"

AllChatSendsFailed ==
    /\ SendsOn("whatsapp") # {}
    /\ \A i \in SendsOn("whatsapp") : attempts[i].outcome # "ok"

\* the provider of the last send on the chat channel
LastChatProvider ==
    attempts[CHOOSE i \in SendsOn("whatsapp") : \A j \in SendsOn("whatsapp") : j <= i].provider

(***************************************************************************)
(* C26: if every provider the chat chain tried has failed, the channel     *)
(* result is a failure and its error is the error reported by the last     *)
(* provider that was tried.                                                *)
(***************************************************************************)
C26_AllFailedReportsLastError ==
    (ChatCall /\ AllChatSendsFailed) =>
        /\ ~results["whatsapp"].success
        /\ ErrorSource(results["whatsapp"]) = LastChatProvider

\* the number in default-country form: "+92" and the national number (written
\* without its leading zero), whether the number came as "0..." or as "+0...";
\* a number that names its country ("+" and a non-zero digit) stays as it is
DefaultCountryForm(number) ==
    IF StartsWith(number, <<"+", "0">>) THEN <<"+", "9", "2">> \o SubSeq(number, 3, Len(number))
    ELSE IF StartsWith(number, <<"+">>) THEN number
    ELSE IF StartsWith(number, <<"0">>) THEN <<"+", "9", "2">> \o SubSeq(number, 2, Len(number))
    ELSE <<"+", "9", "2">> \o number

\* the digits of a number, as the providers are given them
DigitsOf(number) == SelectSeq(number, LAMBDA c : c # "+")

(***************************************************************************)
(* C27: the SMS channel sends to the number in default-country form:       *)
(* "03001234567" goes out as "+923001234567", "+0987654321" as             *)
(* "+92987654321", and a number that starts with "+" and a non-zero digit  *)
(* goes out unchanged.                                                     *)
(***************************************************************************)
C27_SmsNumberNormalized ==
    \A i \in SendsTo("msg91") :
        attempts[i].to = DigitsOf(DefaultCountryForm(call.phone))

\* the call being served is a call of one channel's send function
DirectSends == {"send_sms", "send_whatsapp", "send_email"}

\* a send on the channel met an exception of the transport
RaisedOn(channel) == \E i \in SendsOn(channel) : attempts[i].outcome = "raise"

\* the result is a failure that says what went wrong
FailureWithError(result) ==
    /\ result.success = FALSE
    /\ Len(result.error) = 2
    /\ result.error[2] # ""

StatusValues == {"success", "error", "warning"}

(***************************************************************************)
(* C29: every response of an intent operation (add, remove, summarize,     *)
(* commit, collect-phone, collect-email, send-notifications, track-status, *)
(* the reply to an unknown intent) carries a status field whose value is   *)
(* success, error or warning.                                              *)
(***************************************************************************)
C29_ResponsesCarryStatus ==
    response # NoResponse => response.status_code \in StatusValues

\* the providers of the three channels
Providers == {"msg91", "business_api", "greenapi", "simple", "smtp"}

(***************************************************************************)
(* C30: no automatic retry.  Within one dispatch each provider (SMS        *)
(* provider, business API, bridge, logging provider, e-mail provider) is   *)
(* sent to at most once; a provider whose send failed is not sent to       *)
(* again.                                                                  *)
(***************************************************************************)
C30_OneSendPerProvider ==
    Dispatching => \A p \in Providers : Cardinality(SendsTo(p)) <= 1

(***************************************************************************)
(* Vocabulary of the concurrency property                                  *)
(***************************************************************************)
\* the process makes the store write of its request in this step
Writes(w) ==
    /\ w \in DOMAIN inflight /\ inflight[w].pc = "read"
    /\ w \in DOMAIN inflight' /\ inflight'[w].pc = "done"

\* the request of the process has been answered with a success
AnsweredSuccess(w) ==
    /\ w \in DOMAIN inflight
    /\ inflight[w].pc = "done"
    /\ inflight[w].response.status_code = "success"

(***************************************************************************)
(* C31: same-session AddItems/RemoveItems calls are not serialized.  Each  *)
(* call reads the cart record and later writes back its own copy, so the   *)
(* write of a call that succeeds replaces the stored cart with what that   *)
(* call computed from the cart it read, whatever was written in between:   *)
(* the last writer wins.  (The witness is the interleaving in which two    *)
(* overlapping calls both return success and the first call's change is    *)
(* lost.)                                                                  *)
(***************************************************************************)
C31_LastWriterWins ==
    [][\A w \in Workers :
          Writes(w) =>
              /\ response' = inflight[w].response
              /\ inflight[w].write.kind = "set" =>
                    /\ inflight[w].session_id \in DOMAIN inprogress_orders'
                    /\ inprogress_orders'[inflight[w].session_id] = inflight[w].write.order
              /\ inflight[w].write.kind = "delete" =>
                    inflight[w].session_id \notin DOMAIN inprogress_orders'
              /\ inflight[w].write.kind = "none" =>
                    inprogress_orders' = inprogress_orders]_vars

\* two AddItems calls of one session read the same cart, both were answered
\* with a success, and the stored cart is the second writer's: an item the
\* other call added is stored with the quantity it had before that call
C31_Witness ==
    \E w \in Workers, v \in Workers :
        /\ w # v
        /\ AnsweredSuccess(w) /\ AnsweredSuccess(v)
        /\ inflight[w].op = "add" /\ inflight[v].op = "add"
        /\ inflight[w].session_id = inflight[v].session_id
        /\ inflight[w].read = inflight[v].read
        /\ CartIn(inprogress_orders, inflight[v].session_id) = inflight[v].write.order
        /\ \E k \in DOMAIN inflight[w].write.order :
              /\ QtyIn(inflight[w].write.order, k) > QtyIn(inflight[w].read, k)
              /\ QtyIn(CartIn(inprogress_orders, inflight[w].session_id), k)
                    = QtyIn(inflight[w].read, k)

(***************************************************************************)
(* Vocabulary of the frame properties                                      *)
(***************************************************************************)
\* the value a contacts collection holds for a session and a field (none: <<>>)
ContactIn(collection, s, field) ==
    IF s \in DOMAIN collection /\ field \in DOMAIN collection[s]
    THEN collection[s][field]
    ELSE <<>>

\* the replies of a collect-phone / collect-email call that stored its value
PhoneSavedTexts ==
    { "I've saved your phone number. Your contact information is complete!",
      "I've saved your phone number. Please provide your email address" }

EmailSavedTexts ==
    { "I've saved your email. Your contact information is complete!" }

(***************************************************************************)
(* C32: contact records change only through the collect operations and are *)
(* never deleted.  In every step: a contact value that is set stays set; a *)
(* stored phone changes only in a collect-phone call, which leaves the     *)
(* email as it was, and a stored email only in a collect-email call, which *)
(* leaves the phone as it was; every other call (AddItems, RemoveItems,    *)
(* Summarize, Commit, send-notifications) leaves the contact records as    *)
(* they were.                                                              *)
(***************************************************************************)
C32_ContactsChangeOnlyByCollect ==
    [][\A s \in Sessions :
          /\ \A field \in {"phone", "email"} :
                ContactIn(user_contacts, s, field) # <<>>
                    => ContactIn(user_contacts', s, field) # <<>>
          /\ ContactIn(user_contacts', s, "phone") # ContactIn(user_contacts, s, "phone")
                => /\ response'.text \in PhoneSavedTexts
                   /\ ContactIn(user_contacts', s, "email") = ContactIn(user_contacts, s, "email")
          /\ ContactIn(user_contacts', s, "email") # ContactIn(user_contacts, s, "email")
                => /\ response'.text \in EmailSavedTexts
                   /\ ContactIn(user_contacts', s, "phone") = ContactIn(user_contacts, s, "phone")
          /\ response'.text \notin (PhoneSavedTexts \cup EmailSavedTexts)
                => user_contacts' = user_contacts]_vars

\* an order has been placed for a session whose phone and email, collected
\* before, are both still stored
C32_Witness ==
    /\ response.text \in PlacedTexts
    /\ \E s \in Sessions :
          /\ ContactIn(user_contacts, s, "phone") # <<>>
          /\ ContactIn(user_contacts, s, "email") # <<>>

\* the cart record and the contact record of a session are as they were,
\* present or absent alike
RecordsUnchanged(s) ==
    /\ (s \in DOMAIN inprogress_orders') <=> (s \in DOMAIN inprogress_orders)
    /\ CartIn(inprogress_orders', s) = CartIn(inprogress_orders, s)
    /\ (s \in DOMAIN user_contacts') <=> (s \in DOMAIN user_contacts)
    /\ \A field \in {"phone", "email"} :
          ContactIn(user_contacts', s, field) = ContactIn(user_contacts, s, field)

\* no session but this one has a record changed in the step
OthersUnchanged(s) == \A other \in TwoSessions \ {s} : RecordsUnchanged(other)

\* the step is a request of the session
RequestOf(s) ==
    \/ \E p \in OneItemParams : add_to_order(p, s) \/ remove_from_order(p, s)
    \/ order_summary_intent(s)
    \/ complete_order(s, TRUE, TRUE) \/ send_notifications(s, TRUE, TRUE)
    \/ \E v \in Phones \cup {NoValue} : collect_phone_number(v, s)
    \/ \E v \in Emails \cup {NoValue} : collect_email(v, s)

(***************************************************************************)
(* C33: session isolation.  A request made with session id A (AddItems,    *)
(* RemoveItems, Summarize, Commit, collect-phone, collect-email,           *)
(* send-notifications) leaves the cart record and the contact record of    *)
(* every other session as they were, whatever the order in which the       *)
(* requests of the sessions arrive.                                        *)
(***************************************************************************)
C33_SessionIsolation ==
    [][\A s \in TwoSessions : OthersUnchanged(s) \/ ~RequestOf(s)]_vars

\* both sessions hold a cart, the two carts differ, and one session has a
\* phone number stored while the other has none
C33_Witness ==
    /\ CartIn(inprogress_orders, "s1") # <<>>
    /\ CartIn(inprogress_orders, "s2") # <<>>
    /\ CartIn(inprogress_orders, "s1") # CartIn(inprogress_orders, "s2")
    /\ ContactIn(user_contacts, "s1", "phone") # <<>>
    /\ ContactIn(user_contacts, "s2", "phone") = <<>>

\* the copy of the cart the loop of a RemoveItems request holds when it stops
RemoveCopy(p, s) ==
    RemoveLoop(SanitizedItems(p), RemoveQuantities(p), get_order(s), <<>>, <<>>, 1)

\* the request passes validation, its loop deletes an entry from the copy and
\* then raises on a name the copy does not (or no longer does) hold
FailsAfterDeleting(p, s) ==
    /\ validate_order_params(p).is_valid
    /\ RemoveCopy(p, s).raised
    /\ RemoveCopy(p, s).order # get_order(s)

\* the step is a RemoveItems request answered with an error
FailedRemove ==
    /\ response'.status_code = "error"
    /\ \E p \in OrderParams, s \in Sessions : remove_from_order(p, s)

(***************************************************************************)
(* C34: a RemoveItems call that returns an error outcome leaves the stored *)
(* cart unchanged: the entries its loop deleted from the in-memory copy    *)
(* before the failure (present items listed before an absent one, the      *)
(* first occurrence of a name listed twice) are not persisted.             *)
(***************************************************************************)
C34_FailedRemoveKeepsCart ==
    [][(inprogress_orders' = inprogress_orders) \/ ~FailedRemove]_vars

\* the last request was a RemoveItems that raised, and the cart it left is
\* one that a request deletes an entry from, in its copy, before it raises
C34_Witness ==
    /\ response.status_code = "error"
    /\ response.text = "Sorry, an error occurred while removing from your order."
    /\ \E p \in OrderParams, s \in Sessions :
          /\ FailsAfterDeleting(p, s)
          /\ get_order(s) # EmptyOrder

\* the names under which the stored cart of a session holds a quantity
StoredKeys(s) == DOMAIN CartIn(inprogress_orders, s)

(***************************************************************************)
(* C35: with a fixed catalog, every key of every stored cart is the        *)
(* normalised (lower-case) name of an item the catalog holds: no sequence  *)
(* of AddItems and RemoveItems requests persists an entry for a name the   *)
(* catalog lookup does not find.                                           *)
(***************************************************************************)
C35_StoredKeysInCatalog ==
    \A s \in DOMAIN inprogress_orders : StoredKeys(s) \subseteq CatalogNames

\* a cart with an entry is stored and the last request was an AddItems
\* refused for a name the catalog does not hold
C35_Witness ==
    /\ \E s \in DOMAIN inprogress_orders : StoredKeys(s) # {}
    /\ response.status_code = "error"
    /\ response.text = "Sorry, item is not available in our menu."
    /\ response.item \notin CatalogNames

\* the last reply is that of a Commit that placed the order
CommitReported == response.status_code = "success" /\ response.text \in PlacedTexts

\* the step hands an order confirmation to the notification system
Notifies == order_details'.order_id # <<>>

\* the step is a send-notifications request
NotificationsRequest ==
    \E s \in Sessions, sms_ok \in BOOLEAN, email_ok \in BOOLEAN :
        send_notifications(s, sms_ok, email_ok)

(***************************************************************************)
(* C36: a send-notifications request that follows a Commit dispatches the  *)
(* order confirmation under the order id that Commit reported: the id the  *)
(* confirmation messages render is the id of the reply of Commit.          *)
(***************************************************************************)
C36_NotifiesUnderCommitId ==
    [][\/ ~(CommitReported /\ Notifies)
       \/ order_details'.order_id = IntText(response.order_id)
       \/ ~NotificationsRequest]_vars

(***************************************************************************)
(* C37: within one dispatch the SMS channel and the chat channel address   *)
(* the same destination: the number handed to the SMS provider is, digit   *)
(* for digit, the number handed to every chat provider the dispatch tried. *)
(***************************************************************************)
C37_SameDestination ==
    Dispatching =>
        \A i \in SendsTo("msg91"), j \in SendsOn("whatsapp") :
            DigitsOf(attempts[i].to) = DigitsOf(attempts[j].to)

====
